---- MODULE Spec2Model ----
(***************************************************************************)
(* Battery dispatch simulator of src/src/bess.py: run_bess_model,          *)
(* simulate_bess_dispatch and summarize_bess, as a state machine.          *)
(* Spec runs it on short price series, SpecYear on series of a year.       *)
(*                                                                         *)
(* Numbers.  The code computes in floats; the model computes in exact      *)
(* rationals <<numerator, denominator>> (denominator > 0, lowest terms),   *)
(* so rounding error is outside the model.                                 *)
(* Time.  A timestamp is a whole number of hours; the calendar day of      *)
(* hour t is t \div HoursPerDay.                                           *)
(***************************************************************************)
EXTENDS Integers, Sequences, FiniteSets, TLC

(* ------------------------------------------------------------------ *)
(* Bounds and input domains                                            *)
(* ------------------------------------------------------------------ *)

\* longest price series passed in
MaxLen == 4

\* hours in a calendar day (DatetimeIndex.normalize)
HoursPerDay == 24

\* minimum number of rows run_bess_model accepts
MinRows == 8000

\* first hour of an input series: a series that lies in one day and one
\* that crosses midnight after two hours
StartHours == {0, 22}

\* hourly prices ($/MWh); electricity prices may be negative
PriceValues == {-5, 10, 100}

(* ------------------------------------------------------------------ *)
(* Exact arithmetic standing for the float arithmetic of the code      *)
(* ------------------------------------------------------------------ *)

Abs(x) == IF x < 0 THEN -x ELSE x

RECURSIVE GCD(_, _)
GCD(a, b) == IF b = 0 THEN a ELSE GCD(b, a % b)

\* the rational n/d in lowest terms, d # 0
Rat(n, d) ==
    LET g == GCD(Abs(n), Abs(d))
        s == IF d < 0 THEN -1 ELSE 1
    IN  << (s * n) \div g, (s * d) \div g >>

R(x) == << x, 1 >>

Zero == R(0)

RAdd(a, b) == Rat(a[1] * b[2] + b[1] * a[2], a[2] * b[2])
RSub(a, b) == Rat(a[1] * b[2] - b[1] * a[2], a[2] * b[2])
RMul(a, b) == Rat(a[1] * b[1], a[2] * b[2])
\* a / b, b # 0
RDiv(a, b) == Rat(a[1] * b[2], a[2] * b[1])
RLe(a, b) == a[1] * b[2] <= b[1] * a[2]
RLt(a, b) == a[1] * b[2] < b[1] * a[2]
RGe(a, b) == RLe(b, a)
RGt(a, b) == RLt(b, a)
\* Python's min(a, b) and max(a, b)
RMin(a, b) == IF RLt(b, a) THEN b ELSE a
RMax(a, b) == IF RGt(b, a) THEN b ELSE a

\* a name not yet bound to a value
Unbound == << 0, 0 >>

(* ------------------------------------------------------------------ *)
(* pandas helpers                                                      *)
(* ------------------------------------------------------------------ *)

\* A Series is [dtype, index, values]: dtype is the index's type
\* ("datetime64" for a DatetimeIndex, "object" for an index of strings),
\* index a sequence of labels [ok, t] (ok = FALSE: a string that is no
\* timestamp, or NaT), values the prices.
Label(t) == [ok |-> TRUE, t |-> t]
NaT == [ok |-> FALSE, t |-> 0]

SeriesLen(s) == Len(s.index)

\* the rows lo..hi of s that satisfy keep, in order
RECURSIVE Take(_, _, _, _)
Take(s, keep, lo, hi) ==
    IF lo > hi THEN [dtype |-> s.dtype, index |-> << >>, values |-> << >>]
    ELSE IF lo = hi
    THEN IF lo \in keep
         THEN [dtype  |-> s.dtype,
               index  |-> << s.index[lo] >>,
               values |-> << s.values[lo] >>]
         ELSE [dtype |-> s.dtype, index |-> << >>, values |-> << >>]
    ELSE LET mid   == (lo + hi) \div 2
             left  == Take(s, keep, lo, mid)
             right == Take(s, keep, mid + 1, hi)
         IN  [dtype  |-> s.dtype,
              index  |-> left.index \o right.index,
              values |-> left.values \o right.values]

\* pd.to_datetime(index, errors="coerce"): every label becomes a timestamp,
\* a string that does not parse becomes NaT
ToDatetime(s) ==
    [dtype  |-> "datetime64",
     index  |-> [k \in 1..SeriesLen(s) |->
                    IF s.index[k].ok THEN Label(s.index[k].t) ELSE NaT],
     values |-> s.values]

\* the sorting order of the labels at positions a and b of an index:
\* ascending, NaT last, equal labels in input order
Before(idx, a, b) ==
    IF idx[a].ok # idx[b].ok THEN idx[a].ok
    ELSE \/ idx[a].ok /\ idx[a].t < idx[b].t
         \/ (idx[a].ok => idx[a].t = idx[b].t) /\ a <= b

\* how many of the positions run[lo..hi], a run in sorting order, come
\* before position x (x itself counted)
RECURSIVE CountBefore(_, _, _, _, _)
CountBefore(idx, run, x, lo, hi) ==
    IF lo > hi THEN lo - 1
    ELSE LET mid == (lo + hi) \div 2
         IN  IF Before(idx, run[mid], x)
             THEN CountBefore(idx, run, x, mid + 1, hi)
             ELSE CountBefore(idx, run, x, lo, mid - 1)

\* the largest i in lo..hi with place[i] <= p, lo - 1 if there is none
RECURSIVE LastUpTo(_, _, _, _)
LastUpTo(place, p, lo, hi) ==
    IF lo > hi THEN lo - 1
    ELSE LET mid == (lo + hi) \div 2
         IN  IF place[mid] <= p THEN LastUpTo(place, p, mid + 1, hi)
             ELSE LastUpTo(place, p, lo, mid - 1)

\* two runs in sorting order merged into one: place[i] is where left[i]
\* goes, the positions of right fill the other places in order
Merge(idx, left, right) ==
    LET place == << >> \o [i \in 1..Len(left) |->
                     i + CountBefore(idx, right, left[i], 1, Len(right))]
    IN  << >> \o [p \in 1..(Len(left) + Len(right)) |->
                     LET i == LastUpTo(place, p, 1, Len(left))
                     IN  IF i >= 1 /\ place[i] = p THEN left[i]
                         ELSE right[p - i]]

\* the positions lo..hi of an index in sorting order (merge sort)
RECURSIVE SortPositions(_, _, _)
SortPositions(idx, lo, hi) ==
    IF lo > hi THEN << >>
    ELSE IF lo = hi THEN << lo >>
    ELSE LET mid == (lo + hi) \div 2
         IN  Merge(idx, SortPositions(idx, lo, mid),
                   SortPositions(idx, mid + 1, hi))

\* the positions of an index in sorting order; an index that is in order
\* already is not sorted again
Argsort(idx) ==
    IF \A k \in 1..(Len(idx) - 1) : Before(idx, k, k + 1)
    THEN [k \in 1..Len(idx) |-> k]
    ELSE SortPositions(idx, 1, Len(idx))

\* s[s.index.notnull()]
DropNull(s) ==
    Take(s, {k \in 1..SeriesLen(s) : s.index[k].ok}, 1, SeriesLen(s))

\* s[~s.index.duplicated(keep="first")]: a row is kept when no earlier row
\* has its label, that is when the row before it in sorting order has
\* another label
DropDuplicated(s) ==
    LET n == SeriesLen(s)
        p == Argsort(s.index)
        first(k) == LET r == CountBefore(s.index, p, k, 1, n)
                    IN  r = 1 \/ s.index[p[r - 1]] # s.index[k]
    IN  Take(s, {k \in 1..n : first(k)}, 1, n)

SortIndex_asGiven(s) == s

\* s.sort_index()
SortIndex(s) ==
    LET p == Argsort(s.index)
    IN  [dtype  |-> s.dtype,
         index  |-> [k \in 1..SeriesLen(s) |-> s.index[p[k]]],
         values |-> [k \in 1..SeriesLen(s) |-> s.values[p[k]]]]

\* a sequence of integers in ascending order
SortInts(v) ==
    LET p == Argsort(<< >> \o [k \in 1..Len(v) |-> Label(v[k])])
    IN  [k \in 1..Len(v) |-> v[p[k]]]

\* Series.quantile(q), interpolation="linear", of a non-empty sequence of
\* prices: position q*(n-1) in the sorted values, interpolated between the
\* two neighbours
Quantile(v, q) ==
    LET sorted == SortInts(v)
        n      == Len(v)
        pos    == RMul(q, R(n - 1))
        lo     == pos[1] \div pos[2]
        frac   == RSub(pos, R(lo))
    IN  IF lo + 1 >= n THEN R(sorted[n])
        ELSE RAdd(R(sorted[lo + 1]),
                  RMul(frac, R(sorted[lo + 2] - sorted[lo + 1])))

\* DatetimeIndex.normalize(): the calendar day of a timestamp
Normalize(t) == t \div HoursPerDay

(* ------------------------------------------------------------------ *)
(* Inputs                                                              *)
(* ------------------------------------------------------------------ *)

\* module-level configuration (config.yaml is not part of the sources; the
\* values are those of the 4-hour, 1 MW system of the module docstring)
BESS_DURATION_H == 4
BESS_POWER_MW == 1
BESS_CAPACITY_MWh == BESS_POWER_MW * BESS_DURATION_H
CHARGE_EFF == Rat(9, 10)
DISCHARGE_EFF == Rat(9, 10)
LOW_Q == Rat(1, 4)
HIGH_Q == Rat(3, 4)

\* (capacity_MWh, power_MW) pairs of a physical battery
PhysicalSizes ==
    { << BESS_CAPACITY_MWh, BESS_POWER_MW >>, << 3, 2 >>, << 2, 2 >> }

\* non-physical pairs: the function takes any number
NonPhysicalSizes == { << 0, 1 >>, << 1, 0 >>, << -1, 1 >>, << 2, -1 >> }

\* (charge_eff, discharge_eff) pairs
EffPairs == { << CHARGE_EFF, DISCHARGE_EFF >>, << Rat(1, 2), R(1) >> }

\* (low_q, high_q) pairs: the default one and an inverted one
QuantilePairs == { << LOW_Q, HIGH_Q >>, << HIGH_Q, LOW_Q >> }

\* the keyword arguments of simulate_bess_dispatch (lines 26-35)
Params(sz, ef, qp, d) ==
    [capacity_MWh |-> R(sz[1]), power_MW |-> R(sz[2]),
     charge_eff |-> ef[1], discharge_eff |-> ef[2],
     low_q |-> qp[1], high_q |-> qp[2],
     use_daily_thresholds |-> d]

\* the arguments of a direct call of simulate_bess_dispatch
SimulateParams ==
    { Params(sz, ef, qp, d) :
        sz \in PhysicalSizes, ef \in EffPairs, qp \in QuantilePairs,
        d \in BOOLEAN }
    \cup
    { Params(sz, << CHARGE_EFF, DISCHARGE_EFF >>, qp, d) :
        sz \in NonPhysicalSizes, qp \in QuantilePairs, d \in BOOLEAN }

\* the arguments run_bess_model hands on (lines 239-244): its own low_q,
\* high_q and use_daily_thresholds, the module defaults for the rest
RunParams ==
    { Params(<< BESS_CAPACITY_MWh, BESS_POWER_MW >>,
             << CHARGE_EFF, DISCHARGE_EFF >>, qp, d) :
        qp \in QuantilePairs, d \in BOOLEAN }

\* an hourly, gap-free series of n prices starting at hour start; order
\* "reversed" hands the rows over latest first
HourlySeries(start, prices, order, dtype) ==
    LET n == Len(prices)
        at(k) == IF order = "reversed" THEN n + 1 - k ELSE k
    IN  [dtype  |-> dtype,
         index  |-> [k \in 1..n |-> Label(start + at(k) - 1)],
         values |-> [k \in 1..n |-> prices[at(k)]]]

\* a series with a defect of raw data: "nat" makes the first label
\* unparseable, "dup" repeats the first label at the last row
WithDefect(s, defect) ==
    LET n == SeriesLen(s)
    IN  IF n = 0 \/ defect = "none" THEN s
        ELSE IF defect = "nat"
             THEN [s EXCEPT !.index[1] = NaT]
             ELSE [s EXCEPT !.index[n] = s.index[1]]

PriceLists(lo) == UNION { [1..n -> PriceValues] : n \in lo..MaxLen }

\* series passed to simulate_bess_dispatch: non-empty, labels unique
SimulateInputs(order, dtype) ==
    { HourlySeries(st, pr, order, dtype) :
        st \in StartHours, pr \in PriceLists(1) }

\* series passed to run_bess_model: raw data, possibly empty
RunInputs ==
    { WithDefect(HourlySeries(st, pr, ord, dt), df) :
        st \in StartHours, pr \in PriceLists(0),
        ord \in {"sorted", "reversed"}, dt \in {"datetime64", "object"},
        df \in {"none", "nat", "dup"} }

(* ------------------------------------------------------------------ *)
(* State                                                               *)
(* ------------------------------------------------------------------ *)

VARIABLES
    entry,           \* the function the caller called: "run" or "simulate"
    given,           \* the caller's series as it was at the call
    caller_series,   \* the caller's series object now
    params,          \* keyword arguments of simulate_bess_dispatch
    pc,              \* position in the code
    price_series,    \* the local name price_series
    bess,            \* the hourly table: one record per row
    low_th_series,   \* daily mode: low threshold of each row
    high_th_series,  \* daily mode: high threshold of each row
    low_th,          \* low threshold in use
    high_th,         \* high threshold in use
    soc,             \* state of charge (MWh)
    t_pos,           \* position in bess.index of the loop variable t
    done,            \* rows the dispatch loop has written
    error,           \* the exception raised, "none" while there is none
    summary          \* what summarize_bess returned for the table

vars == << entry, given, caller_series, params, pc, price_series, bess,
           low_th_series, high_th_series, low_th, high_th, soc, t_pos, done,
           error, summary >>

\* no summary yet
NoSummary == [made |-> FALSE]

TooShort == "ValueError: Price series too short"
NoDatetimeIndex == "ValueError: price_series must have a DatetimeIndex."
NoAt == "AttributeError: 'Index' object has no attribute 'at'"

Init ==
    /\ \/ /\ entry = "run"
          /\ given \in RunInputs
          /\ params \in RunParams
       \/ /\ entry = "simulate"
          /\ given \in SimulateInputs("sorted", "datetime64")
          /\ params \in SimulateParams
       \/ /\ entry = "simulate"
          /\ given \in SimulateInputs("reversed", "datetime64")
                       \cup SimulateInputs("sorted", "object")
          /\ params \in RunParams
    /\ caller_series = given
    /\ price_series = given
    /\ pc = entry
    /\ bess = << >>
    /\ low_th_series = << >>
    /\ high_th_series = << >>
    /\ low_th = Unbound
    /\ high_th = Unbound
    /\ soc = Unbound
    /\ t_pos = 0
    /\ done = 0
    /\ error = "none"
    /\ summary = NoSummary

(* ------------------------------------------------------------------ *)
(* run_bess_model                                                      *)
(* ------------------------------------------------------------------ *)

\* lines 223-224: a non-datetime index is converted in place, on the object
\* the caller passed
CoerceIndex(s) == IF s.dtype # "datetime64" THEN ToDatetime(s) ELSE s

\* lines 226-228: new objects without NaT labels and repeated labels, sorted
Sanitize(s) == SortIndex(DropDuplicated(DropNull(s)))

\* lines 222-244: the index is made a DatetimeIndex, the series is cleaned,
\* and a series of fewer than MinRows rows is refused
RunBessModel ==
    /\ pc = "run"
    /\ caller_series' = CoerceIndex(caller_series)
    /\ price_series' = Sanitize(caller_series')
    /\ IF SeriesLen(price_series') < MinRows
       THEN pc' = "raised" /\ error' = TooShort
       ELSE pc' = "simulate" /\ error' = error
    /\ UNCHANGED << entry, given, params, bess, low_th_series, high_th_series,
                    low_th, high_th, soc, t_pos, done, summary >>

(* ------------------------------------------------------------------ *)
(* simulate_bess_dispatch                                              *)
(* ------------------------------------------------------------------ *)

\* lines 59-71: one record per row of the series, the columns at 0.0
NewRecord(t, price) ==
    [t |-> t, price |-> R(price), SOC_MWh |-> Zero, charge_MW |-> Zero,
     discharge_MW |-> Zero, charge_cost |-> Zero, discharge_rev |-> Zero,
     net_revenue |-> Zero, throughput_MWh |-> Zero,
     charge_energy_MWh |-> Zero, discharge_energy_MWh |-> Zero]

NewTable(s) ==
    [k \in 1..SeriesLen(s) |-> NewRecord(s.index[k].t, s.values[k])]

\* line 79: the prices of the rows of one calendar day, in row order
RECURSIVE GroupPrices(_, _, _)
GroupPrices(s, day, k) ==
    IF k > SeriesLen(s) THEN << >>
    ELSE (IF Normalize(s.index[k].t) = day THEN << s.values[k] >> ELSE << >>)
         \o GroupPrices(s, day, k + 1)

\* lines 76-91: the q quantile of each row's own calendar day
DailyThresholds(s, q) ==
    [k \in 1..SeriesLen(s) |->
        Quantile(GroupPrices(s, Normalize(s.index[k].t), 1), q)]

\* lines 93-94: the q quantile of the whole series
GlobalThreshold(s, q) == Quantile(s.values, q)

\* lines 54-97
SimulateSetup ==
    /\ pc = "simulate"
    /\ price_series' = SortIndex(price_series)
    /\ IF price_series'.dtype # "datetime64"
       THEN /\ pc' = "raised"
            /\ error' = NoDatetimeIndex
            /\ UNCHANGED << bess, low_th_series, high_th_series, low_th,
                            high_th, soc >>
       ELSE /\ pc' = "loop"
            /\ bess' = NewTable(price_series')
            /\ IF params.use_daily_thresholds
               THEN /\ low_th_series' = DailyThresholds(price_series', params.low_q)
                    /\ high_th_series' = DailyThresholds(price_series', params.high_q)
                    /\ UNCHANGED << low_th, high_th >>
               ELSE /\ low_th' = GlobalThreshold(price_series', params.low_q)
                    /\ high_th' = GlobalThreshold(price_series', params.high_q)
                    /\ UNCHANGED << low_th_series, high_th_series >>
            /\ soc' = Zero
            /\ error' = error
    /\ UNCHANGED << entry, given, caller_series, params, t_pos, done, summary >>

ChargeCondition_flipped(price, low, s, capacity) ==
    RGe(price, low) /\ RLt(s, capacity)

ChargeCondition_strict(price, low, s, capacity) ==
    RLt(price, low) /\ RLt(s, capacity)

\* line 113
ChargeCondition(price, low, s, capacity) ==
    RLe(price, low) /\ RLt(s, capacity)

\* line 126, the condition
DischargeCondition(price, high, s) ==
    RGe(price, high) /\ RGt(s, Zero)

Discharging_if(charging, price, high, s) ==
    DischargeCondition(price, high, s)

\* line 126, the elif: the discharge branch is tried only when the charge
\* branch was not taken
Discharging(charging, price, high, s) ==
    ~charging /\ DischargeCondition(price, high, s)

EnergyIntoBattery_unlimited(power, capacity, s) == power

\* line 115
EnergyIntoBattery(power, capacity, s) == RMin(power, RSub(capacity, s))

EnergyFromBattery_unlimited(power, s) == power

\* line 128
EnergyFromBattery(power, s) == RMin(power, s)

ChargeFromGrid_times(energy, charge_eff) == RMul(energy, charge_eff)

\* line 118
ChargeFromGrid(energy, charge_eff) == RDiv(energy, charge_eff)

\* line 131
DischargeToGrid(energy, discharge_eff) == RMul(energy, discharge_eff)

\* line 139
ClampSOC(s, capacity) == RMax(Zero, RMin(s, capacity))

\* lines 106-145: the record of one hour and the SOC it leaves, from the
\* record as initialised, the SOC before the hour and the thresholds
Transition(rec, s, low, high, p) ==
    LET charging    == ChargeCondition(rec.price, low, s, p.capacity_MWh)
        discharging == Discharging(charging, rec.price, high, s)
        energy_into_battery ==
            IF charging THEN EnergyIntoBattery(p.power_MW, p.capacity_MWh, s)
            ELSE Zero
        energy_from_battery ==
            IF discharging THEN EnergyFromBattery(p.power_MW, s) ELSE Zero
        charge_from_grid ==
            IF charging THEN ChargeFromGrid(energy_into_battery, p.charge_eff)
            ELSE Zero
        discharge_to_grid ==
            IF discharging
            THEN DischargeToGrid(energy_from_battery, p.discharge_eff)
            ELSE Zero
        moved == RSub(RAdd(s, energy_into_battery), energy_from_battery)
        clamped == ClampSOC(moved, p.capacity_MWh)
    IN  [soc |-> clamped,
         rec |-> [rec EXCEPT
                    !.charge_MW = IF charging THEN charge_from_grid ELSE @,
                    !.charge_cost =
                        IF charging THEN RMul(charge_from_grid, rec.price) ELSE @,
                    !.discharge_MW =
                        IF discharging THEN discharge_to_grid ELSE @,
                    !.discharge_rev =
                        IF discharging THEN RMul(discharge_to_grid, rec.price)
                        ELSE @,
                    !.SOC_MWh = clamped,
                    !.charge_energy_MWh = energy_into_battery,
                    !.discharge_energy_MWh = energy_from_battery,
                    !.throughput_MWh =
                        RAdd(energy_into_battery, energy_from_battery)]]

\* lines 99-145: one pass of the dispatch loop, on the next row.  In daily
\* mode low_th_series and high_th_series are what DatetimeIndex.map returns,
\* a pandas Index, and an Index has no .at accessor (Series and DataFrame
\* have): the lookup of line 103 raises AttributeError in the first pass.
DispatchStep ==
    /\ pc = "loop"
    /\ done < Len(bess)
    /\ t_pos' = done + 1
    /\ IF params.use_daily_thresholds
       THEN /\ pc' = "raised"
            /\ error' = NoAt
            /\ UNCHANGED << low_th, high_th, soc, bess, done >>
       ELSE /\ LET out == Transition(bess[t_pos'], soc, low_th, high_th, params)
               IN  /\ soc' = out.soc
                   /\ bess' = [bess EXCEPT ![t_pos'] = out.rec]
            /\ done' = done + 1
            /\ UNCHANGED << low_th, high_th, pc, error >>
    /\ UNCHANGED << entry, given, caller_series, params, price_series,
                    low_th_series, high_th_series, summary >>

NetRevenue_gross(rec) == rec.discharge_rev

\* line 147
NetRevenue(rec) == RSub(rec.discharge_rev, rec.charge_cost)

\* lines 147-148: the net revenue column is computed and the table returned
SimulateReturn ==
    /\ pc = "loop"
    /\ done = Len(bess)
    /\ bess' = [k \in 1..Len(bess) |->
                   [bess[k] EXCEPT !.net_revenue = NetRevenue(bess[k])]]
    /\ pc' = "returned"
    /\ UNCHANGED << entry, given, caller_series, params, price_series,
                    low_th_series, high_th_series, low_th, high_th, soc, t_pos,
                    done, error, summary >>

(* ------------------------------------------------------------------ *)
(* summarize_bess                                                      *)
(* ------------------------------------------------------------------ *)

RECURSIVE Pow10(_)
Pow10(nd) == IF nd = 0 THEN 1 ELSE 10 * Pow10(nd - 1)

\* round(x, nd): the nearest multiple of 10^-nd, a tie going to the even
\* one (the ties that occur are exact in binary, so the float's tie is the
\* rational's)
Round(x, nd) ==
    LET scaled == RMul(x, R(Pow10(nd)))
        low    == scaled[1] \div scaled[2]
        rest   == 2 * (scaled[1] - low * scaled[2])
        near   == IF rest < scaled[2] THEN low
                  ELSE IF rest > scaled[2] THEN low + 1
                  ELSE IF low % 2 = 0 THEN low ELSE low + 1
    IN  Rat(near, Pow10(nd))

RECURSIVE ColumnSum(_, _, _)
\* Series.sum(): the sum of the values lo..hi of a column
ColumnSum(col, lo, hi) ==
    IF lo > hi THEN Zero
    ELSE IF lo = hi THEN col[lo]
    ELSE LET mid == (lo + hi) \div 2
         IN  RAdd(ColumnSum(col, lo, mid), ColumnSum(col, mid + 1, hi))

ActiveDays_hours(df) ==
    { df[k].t : k \in {j \in 1..Len(df) : RGt(df[j].discharge_MW, Zero)} }

\* lines 159-166: the calendar days with a row whose discharge_MW is > 0
ActiveDays(df) ==
    { Normalize(df[k].t) : k \in {j \in 1..Len(df) : RGt(df[j].discharge_MW, Zero)} }

\* line 154: the cycles are counted against the capacity of the module
\* configuration, whatever capacity the table was simulated with
FullCycles(total_throughput) ==
    RDiv(total_throughput, RMul(R(2), R(BESS_CAPACITY_MWh)))

\* line 168
AvgDailyRev(total_revenue, days_active) ==
    IF days_active > 0 THEN RDiv(total_revenue, R(days_active)) ELSE Zero

\* lines 150-176, for a table of at least one row
Summarize(df) ==
    LET n == Len(df)
        total_revenue == ColumnSum([k \in 1..n |-> df[k].net_revenue], 1, n)
        total_throughput == ColumnSum([k \in 1..n |-> df[k].throughput_MWh], 1, n)
        avg_soc == RDiv(ColumnSum([k \in 1..n |-> df[k].SOC_MWh], 1, n), R(n))
        days_active == Cardinality(ActiveDays(df))
    IN  [made |-> TRUE,
         total_net_revenue |-> Round(total_revenue, 2),
         full_cycles |-> Round(FullCycles(total_throughput), 2),
         average_soc |-> Round(avg_soc, 2),
         days_active |-> Round(R(days_active), 1),
         avg_daily_net_revenue |->
             Round(AvgDailyRev(total_revenue, days_active), 2)]

\* the caller hands the returned table to summarize_bess (line 246 in
\* run_bess_model)
SummarizeBess ==
    /\ pc = "returned"
    /\ summary' = Summarize(bess)
    /\ pc' = "summarized"
    /\ UNCHANGED << entry, given, caller_series, params, price_series, bess,
                    low_th_series, high_th_series, low_th, high_th, soc, t_pos,
                    done, error >>

Next ==
    \/ RunBessModel
    \/ SimulateSetup
    \/ DispatchStep
    \/ SimulateReturn
    \/ SummarizeBess

Spec == Init /\ [][Next]_vars

(* ------------------------------------------------------------------ *)
(* run_bess_model on a year of hourly prices                           *)
(* ------------------------------------------------------------------ *)

\* a year of prices: cheap in the first six hours of a day, dear in the
\* last six
YearPrices(n) ==
    [k \in 1..n |-> IF (k - 1) % HoursPerDay < 6 THEN -5
                    ELSE IF (k - 1) % HoursPerDay < 18 THEN 10 ELSE 100]

\* series of about MinRows rows passed to run_bess_model: one handed over
\* latest first, with labels that are strings and a repeated label, that
\* has MinRows rows once cleaned, and two that have a row less
YearInputs ==
    { WithDefect(HourlySeries(0, YearPrices(MinRows + 1), "reversed",
                              "object"), "dup"),
      WithDefect(HourlySeries(0, YearPrices(MinRows), "sorted", "object"),
                 "nat"),
      HourlySeries(0, YearPrices(MinRows - 1), "sorted", "datetime64") }

\* run_bess_model called with the default quantiles and global thresholds
InitYear ==
    /\ entry = "run"
    /\ given \in YearInputs
    /\ params = Params(<< BESS_CAPACITY_MWh, BESS_POWER_MW >>,
                       << CHARGE_EFF, DISCHARGE_EFF >>,
                       << LOW_Q, HIGH_Q >>, FALSE)
    /\ caller_series = given
    /\ price_series = given
    /\ pc = entry
    /\ bess = << >>
    /\ low_th_series = << >>
    /\ high_th_series = << >>
    /\ low_th = Unbound
    /\ high_th = Unbound
    /\ soc = Unbound
    /\ t_pos = 0
    /\ done = 0
    /\ error = "none"
    /\ summary = NoSummary

SpecYear == InitYear /\ [][Next]_vars

(* ------------------------------------------------------------------ *)
(* Properties                                                          *)
(* ------------------------------------------------------------------ *)

\* the rows the dispatch loop has written
Written == 1..done

\* the SOC the step of row k started from
PrevSOC(k) == IF k = 1 THEN Zero ELSE bess[k - 1].SOC_MWh

\* the thresholds the step of row k was given
LowAt(k) == low_th
HighAt(k) == high_th

\* the branch conditions of row k as the specification words them
ChargeCase(k) ==
    RLe(bess[k].price, LowAt(k)) /\ RLt(PrevSOC(k), params.capacity_MWh)
DischargeCase(k) ==
    RGe(bess[k].price, HighAt(k)) /\ RGt(PrevSOC(k), Zero)

RECURSIVE SumTo(_, _)
\* the sum of f[1..k]
SumTo(f, k) == IF k = 0 THEN Zero ELSE RAdd(SumTo(f, k - 1), f[k])

ChargedTo(k) == SumTo([j \in 1..Len(bess) |-> bess[j].charge_energy_MWh], k)
DischargedTo(k) == SumTo([j \in 1..Len(bess) |-> bess[j].discharge_energy_MWh], k)

\* C1: for every price series and every parameter set, the SOC recorded at
\* every timestamp lies between 0 and the capacity.
C1_SocWithinCapacity ==
    \A k \in Written :
        /\ RLe(Zero, bess[k].SOC_MWh)
        /\ RLe(bess[k].SOC_MWh, params.capacity_MWh)

\* C2: no record has both a nonzero grid charge and a nonzero grid
\* discharge, nor both a nonzero internal charge energy and a nonzero
\* internal discharge energy.
C2_NeverBoth ==
    \A k \in 1..Len(bess) :
        /\ ~(bess[k].charge_MW # Zero /\ bess[k].discharge_MW # Zero)
        /\ ~(bess[k].charge_energy_MWh # Zero
             /\ bess[k].discharge_energy_MWh # Zero)

\* C2 witness: a returned table with an hour that charged and a later hour
\* that discharged.
C2_Witness ==
    /\ pc = "returned"
    /\ \E j, k \in Written :
          /\ j < k
          /\ bess[j].charge_MW # Zero
          /\ bess[j].charge_energy_MWh # Zero
          /\ bess[k].discharge_MW # Zero
          /\ bess[k].discharge_energy_MWh # Zero

\* C3: after a run, the internal charge energy summed over all records
\* minus the internal discharge energy summed over all records equals the
\* final recorded SOC, and the same holds after every interior step (the
\* clamp changes nothing).
C3_Conservation ==
    \A k \in Written :
        RSub(ChargedTo(k), DischargedTo(k)) = bess[k].SOC_MWh

\* C4: a step with price <= low and SOC < capacity charges
\* min(power, capacity - SOC): the new SOC is the old SOC plus that energy,
\* grid charge is the energy divided by the charge efficiency, charge cost
\* is grid charge times price, grid discharge and discharge revenue are 0.
C4_ChargeStep ==
    \A k \in Written :
        ChargeCase(k) =>
            LET e == RMin(params.power_MW,
                          RSub(params.capacity_MWh, PrevSOC(k)))
            IN  /\ bess[k].charge_energy_MWh = e
                /\ bess[k].SOC_MWh = RAdd(PrevSOC(k), e)
                /\ bess[k].charge_MW = RDiv(e, params.charge_eff)
                /\ bess[k].charge_cost = RMul(bess[k].charge_MW, bess[k].price)
                /\ bess[k].discharge_MW = Zero
                /\ bess[k].discharge_rev = Zero

\* C5: a step where the charge condition fails, price >= high and SOC > 0
\* discharges min(power, SOC): the new SOC is the old SOC minus that energy,
\* grid discharge is the energy times the discharge efficiency, discharge
\* revenue is grid discharge times price, grid charge and charge cost are 0.
C5_DischargeStep ==
    \A k \in Written :
        (~ChargeCase(k) /\ DischargeCase(k)) =>
            LET e == RMin(params.power_MW, PrevSOC(k))
            IN  /\ bess[k].discharge_energy_MWh = e
                /\ bess[k].SOC_MWh = RSub(PrevSOC(k), e)
                /\ bess[k].discharge_MW = RMul(e, params.discharge_eff)
                /\ bess[k].discharge_rev =
                       RMul(bess[k].discharge_MW, bess[k].price)
                /\ bess[k].charge_MW = Zero
                /\ bess[k].charge_cost = Zero

\* C5 witness: an hour that discharged the rest of the battery, less than
\* the power rating.
C5_Witness ==
    \E k \in Written :
        /\ ~ChargeCase(k)
        /\ DischargeCase(k)
        /\ RLt(PrevSOC(k), params.power_MW)
        /\ bess[k].discharge_MW # Zero

\* C6: a step where neither the charge nor the discharge condition holds is
\* idle: the recorded SOC is the SOC of the step before, and grid charge,
\* grid discharge, charge cost, discharge revenue, net revenue, internal
\* charge and discharge energy and throughput are 0.
C6_IdleStep ==
    \A k \in Written :
        (~ChargeCase(k) /\ ~DischargeCase(k)) =>
            /\ bess[k].SOC_MWh = PrevSOC(k)
            /\ bess[k].charge_MW = Zero
            /\ bess[k].discharge_MW = Zero
            /\ bess[k].charge_cost = Zero
            /\ bess[k].discharge_rev = Zero
            /\ bess[k].net_revenue = Zero
            /\ bess[k].charge_energy_MWh = Zero
            /\ bess[k].discharge_energy_MWh = Zero
            /\ bess[k].throughput_MWh = Zero

\* C6 witness: a returned table with an idle hour at a partly charged
\* battery, between the thresholds.
C6_Witness ==
    /\ pc = "returned"
    /\ \E k \in Written :
          /\ ~ChargeCase(k)
          /\ ~DischargeCase(k)
          /\ RGt(PrevSOC(k), Zero)
          /\ RLt(PrevSOC(k), params.capacity_MWh)
          /\ RLt(LowAt(k), bess[k].price)
          /\ RLt(bess[k].price, HighAt(k))

\* C7: a step where price <= low with SOC < capacity and price >= high with
\* SOC > 0 both hold charges and does not discharge.
C7_ChargeFirst ==
    \A k \in Written :
        (ChargeCase(k) /\ DischargeCase(k)) =>
            /\ RGt(bess[k].charge_energy_MWh, Zero)
            /\ RGt(bess[k].charge_MW, Zero)
            /\ RGt(bess[k].SOC_MWh, PrevSOC(k))
            /\ bess[k].discharge_energy_MWh = Zero
            /\ bess[k].discharge_MW = Zero
            /\ bess[k].discharge_rev = Zero

\* C7 witness: an hour at a partly charged battery whose price is at or
\* below the low and at or above the high threshold.
C7_Witness ==
    \E k \in Written :
        /\ ChargeCase(k)
        /\ DischargeCase(k)
        /\ RGe(LowAt(k), HighAt(k))
C9_CallerSeriesUnchanged == caller_series = given

\* the positions of the input series whose label lies in the calendar day of
\* hour t
SameDay(t) ==
    {j \in 1..SeriesLen(given) :
        given.index[j].t \div HoursPerDay = t \div HoursPerDay}

\* the value of rank j (0 the smallest) among the values v at positions P
Ranked(v, P, j) ==
    LET i == CHOOSE i \in P :
                 /\ Cardinality({m \in P : v[m] < v[i]}) <= j
                 /\ j < Cardinality({m \in P : v[m] <= v[i]})
    IN  v[i]

\* the linear-interpolation q quantile of the values v at positions P
LinearQuantile(v, P, q) ==
    LET h    == RMul(q, R(Cardinality(P) - 1))
        lo   == h[1] \div h[2]
        frac == RSub(h, R(lo))
        hi   == IF frac = Zero THEN lo ELSE lo + 1
    IN  RAdd(RMul(RSub(R(1), frac), R(Ranked(v, P, lo))),
             RMul(frac, R(Ranked(v, P, hi))))

\* C10: the low and high thresholds applied at each hour the loop comes to
\* are the linear-interpolation low_q and high_q quantiles of the prices of
\* the whole series in global mode, and of the prices of that hour's own
\* calendar day in daily mode.
C10_ThresholdsAreGroupQuantiles ==
    t_pos >= 1 =>
        LET group == IF params.use_daily_thresholds
                     THEN SameDay(bess[t_pos].t)
                     ELSE 1..SeriesLen(given)
        IN  /\ low_th = LinearQuantile(given.values, group, params.low_q)
            /\ high_th = LinearQuantile(given.values, group, params.high_q)
\* the sum of a column of the returned table, computed apart from
\* summarize_bess
Total(col) == SumTo(col, Len(col))
TotalThroughput == Total([k \in 1..Len(bess) |-> bess[k].throughput_MWh])
TotalNetRevenue == Total([k \in 1..Len(bess) |-> bess[k].net_revenue])

\* C11: the full cycles summarize_bess reports (to 2 decimals) are the total
\* throughput divided by twice the capacity the table was simulated with;
\* with power = capacity, a low-price hour followed by a high-price hour
\* takes the SOC from 0 to capacity to 0 and counts as 1.0 cycle.  (Stated
\* for a battery of positive capacity and power.)
C11_FullCyclesOfSimulatedCapacity ==
    (/\ summary.made
     /\ RGt(params.capacity_MWh, Zero)
     /\ RGt(params.power_MW, Zero)) =>
        /\ summary.full_cycles =
               Round(RDiv(TotalThroughput, RMul(R(2), params.capacity_MWh)), 2)
        /\ (/\ Len(bess) = 2
            /\ params.power_MW = params.capacity_MWh
            /\ bess[1].SOC_MWh = params.capacity_MWh
            /\ bess[2].SOC_MWh = Zero) => summary.full_cycles = R(1)

\* the four properties of a price series that the orchestrator is to insist
\* on
TimeAddressable(s) ==
    s.dtype = "datetime64" /\ \A k \in 1..SeriesLen(s) : s.index[k].ok
DuplicateFree(s) ==
    Cardinality({ s.index[k] : k \in 1..SeriesLen(s) }) = SeriesLen(s)
Sorted(s) ==
    \A k \in 1..(SeriesLen(s) - 1) : s.index[k].t <= s.index[k + 1].t
LongEnough(s) == SeriesLen(s) >= MinRows
PassesAllChecks(s) ==
    TimeAddressable(s) /\ DuplicateFree(s) /\ Sorted(s) /\ LongEnough(s)

\* C12: a call of run_bess_model with a series whose index is not
\* time-addressable, has a repeated timestamp, is not sorted or has fewer
\* than 8000 rows ends in an error, with no threshold computed, no row
\* dispatched and no summary made; only a series that passes all four
\* checks is dispatched.
C12_DefectiveSeriesRefused ==
    (entry = "run" /\ pc # "run") =>
        \/ /\ pc = "raised"
           /\ error = TooShort
           /\ bess = << >>
           /\ low_th = Unbound
           /\ high_th = Unbound
           /\ ~summary.made
        \/ PassesAllChecks(given)

\* parameters no battery can have
NonPhysical(p) ==
    \/ RLe(p.charge_eff, Zero) \/ RGt(p.charge_eff, R(1))
    \/ RLe(p.discharge_eff, Zero) \/ RGt(p.discharge_eff, R(1))
    \/ RLe(p.capacity_MWh, Zero) \/ RLe(p.power_MW, Zero)
    \/ RLt(p.low_q, Zero) \/ RGe(p.low_q, p.high_q) \/ RGt(p.high_q, R(1))

\* C13: simulate_bess_dispatch called with non-physical parameters (an
\* efficiency <= 0 or > 1, capacity or power <= 0, quantiles outside
\* 0 <= low_q < high_q <= 1) is rejected before the table is made and
\* before any hourly step: it never enters the loop and returns no table.
C13_NonPhysicalRejected ==
    NonPhysical(params) =>
        /\ pc \notin {"loop", "returned", "summarized"}
        /\ bess = << >>
        /\ done = 0

\* the calendar days of the table that have a record with nonzero grid
\* discharge
DischargeDays ==
    { Normalize(bess[k].t) :
        k \in {j \in 1..Len(bess) : bess[j].discharge_MW # Zero} }

Scenario ==
    /\ params.capacity_MWh = R(4)
    /\ params.power_MW = R(1)
    /\ params.charge_eff = Rat(9, 10)
    /\ params.discharge_eff = Rat(9, 10)
    /\ [k \in 1..Len(bess) |-> bess[k].price] = << R(10), R(10), R(10), R(100) >>
    /\ low_th # Unbound /\ RGe(low_th, R(10))
    /\ high_th # Unbound /\ RLe(high_th, R(100))

\* C15: in the scenario each of hours 1-3 charges 1 MWh (grid draw 1/0.9,
\* cost 100/9) and leaves SOC 1, 2, 3 MWh; hour 4 discharges 1 MWh,
\* delivers 0.9 MWh for a revenue of 90 and leaves SOC 2 MWh; the total net
\* revenue is 90 - 300/9, reported as 56.67.
C15_ScenarioRun ==
    Scenario =>
        /\ \A k \in 1..3 :
              done >= k =>
                /\ bess[k].charge_energy_MWh = R(1)
                /\ bess[k].charge_MW = Rat(10, 9)
                /\ bess[k].charge_cost = Rat(100, 9)
                /\ bess[k].discharge_energy_MWh = Zero
                /\ bess[k].SOC_MWh = R(k)
        /\ done >= 4 =>
                /\ bess[4].charge_energy_MWh = Zero
                /\ bess[4].discharge_energy_MWh = R(1)
                /\ bess[4].discharge_MW = Rat(9, 10)
                /\ bess[4].discharge_rev = R(90)
                /\ bess[4].SOC_MWh = R(2)
        /\ pc \in {"returned", "summarized"} =>
                TotalNetRevenue = RSub(R(90), Rat(300, 9))
        /\ summary.made => summary.total_net_revenue = Rat(5667, 100)

\* the scenario run to its end and summarized
C15_Witness ==
    /\ Scenario
    /\ done = 4
    /\ summary.made
    /\ bess[3].SOC_MWh = R(3)
    /\ bess[4].discharge_rev = R(90)

TotalDischargeRev == Total([k \in 1..Len(bess) |-> bess[k].discharge_rev])
TotalChargeCost == Total([k \in 1..Len(bess) |-> bess[k].charge_cost])

\* C16: in every record of the returned table net revenue = discharge
\* revenue - charge cost, so an hour that charged has net revenue
\* -(charge cost) and an hour that discharged has net revenue = discharge
\* revenue; the total net revenue of the summary is the sum of the records'
\* net revenues (reported to the cent).
C16_NetRevenue ==
    pc \in {"returned", "summarized"} =>
        /\ \A k \in 1..Len(bess) :
              /\ bess[k].net_revenue =
                     RSub(bess[k].discharge_rev, bess[k].charge_cost)
              /\ ChargeCase(k) =>
                     bess[k].net_revenue = RSub(Zero, bess[k].charge_cost)
              /\ (~ChargeCase(k) /\ DischargeCase(k)) =>
                     bess[k].net_revenue = bess[k].discharge_rev
        /\ summary.made =>
              summary.total_net_revenue =
                  Round(RSub(TotalDischargeRev, TotalChargeCost), 2)

\* a summarized table with an hour that charged at a cost and an hour that
\* discharged for a revenue
C16_Witness ==
    /\ summary.made
    /\ \E k \in 1..Len(bess) : ChargeCase(k) /\ bess[k].charge_cost # Zero
    /\ \E k \in 1..Len(bess) :
          ~ChargeCase(k) /\ DischargeCase(k) /\ bess[k].discharge_rev # Zero

\* C17: with power >= 0 and capacity >= 0, after every hour of the run the
\* internal energy discharged so far is at most the internal energy charged
\* so far and the recorded SOC is their difference; no hour discharges
\* unless an earlier hour has charged.
C17_DischargeWithinCharge ==
    (RGe(params.power_MW, Zero) /\ RGe(params.capacity_MWh, Zero)) =>
        \A k \in Written :
            /\ RLe(DischargedTo(k), ChargedTo(k))
            /\ bess[k].SOC_MWh = RSub(ChargedTo(k), DischargedTo(k))
            /\ bess[k].discharge_energy_MWh # Zero =>
                  \E j \in 1..(k - 1) : RGt(bess[j].charge_energy_MWh, Zero)

\* an hour that discharged all that the hours before it had charged
C17_Witness ==
    /\ RGe(params.power_MW, Zero)
    /\ RGe(params.capacity_MWh, Zero)
    /\ \E k \in Written :
          /\ RGt(bess[k].discharge_energy_MWh, Zero)
          /\ DischargedTo(k) = ChargedTo(k)

\* the dispatch of the series has ended: the table was returned, or the
\* loop was left by an exception
RunEnded ==
    \/ pc \in {"returned", "summarized"}
    \/ pc = "raised" /\ t_pos >= 1

\* C18: with capacity > 0 and power > 0 every run over a non-empty series
\* charges in at least one hour (the series' lowest price is at or below
\* the low threshold of its group, and the SOC is 0 < capacity when that
\* hour comes); no run stays idle at SOC 0 through all its hours.
C18_EveryRunCharges ==
    (/\ RunEnded
     /\ Len(bess) > 0
     /\ RGt(params.capacity_MWh, Zero)
     /\ RGt(params.power_MW, Zero)) =>
        /\ \E k \in 1..Len(bess) : RGt(bess[k].charge_energy_MWh, Zero)
        /\ ~ \A k \in 1..Len(bess) :
                /\ bess[k].SOC_MWh = Zero
                /\ bess[k].charge_energy_MWh = Zero
                /\ bess[k].discharge_energy_MWh = Zero
====
